---- MODULE Spec2Model ----
(***************************************************************************)
(* A model of the decorators of jacob-bennett/deco.                        *)
(*                                                                         *)
(*   limit(fn, limit)          src/src/limit.js                            *)
(*   coalesce(fn, generateKey) src/src/coalesce.js                         *)
(*                                                                         *)
(* JavaScript runs one job at a time, so every action below is one job:    *)
(* the synchronous body of a call to the decorated function, or one        *)
(* promise reaction (the callback of a .then / .finally, or the            *)
(* continuation after an await).  Jobs of other code (callers issuing new  *)
(* calls, the wrapped function settling) may run between any two of them.  *)
(***************************************************************************)
EXTENDS Integers, Sequences, FiniteSets, TLC

\* ---- bounds of the model ------------------------------------------------
MaxCalls == 3
MaxLimit == 2
MaxCoCalls == 3
MaxTokens == 2
MaxCtorInt == 4

\* ---- the environment: arguments and the outcomes fn can produce ---------
LimArgs == {"One", "Two"}
FnErrors == {"Expected error"}

Pending == [kind |-> "pending", v |-> "-"]
Value(v) == [kind |-> "value", v |-> v]
Failure(e) == [kind |-> "error", v |-> e]
\* fn is instrumented as in the tests: its n-th invocation returns a value
\* that names its argument and n (text => text, () => timesCalled++), or it
\* fails.
FnReturn(text, n) == text \o "#" \o ToString(n)
FnOutcomes(v) == {Value(v)} \cup {Failure(e) : e \in FnErrors}

VARIABLES
    limit,        \* limit.js: the `limit` parameter of limit(fn, limit)
    processing,   \* limit.js: let processing = 0
    queue,        \* limit.js: const queue = [] of {args, resolve}
    calls,        \* the calls made to the limited function, in call order
    runs,         \* the activations of run(args), in the order they started
    invoked,      \* the invocations of fn, in the order they were made
    generateKey,       \* coalesce.js: the `generateKey` parameter ("none" when absent)
    inFlightRequests,  \* coalesce.js: const inFlightRequests = new Map()
    cocalls,           \* the calls made to the coalesced function, in call order
    promises,          \* the promises made at coalesce.js:124-126, in creation order
    coinvoked,         \* the invocations of fn by the coalescer, in order
    keyArgs,      \* coalesce.js: the `args` createKey is applied to
    keyRes,       \* coalesce.js: what createKey(args, undefined) gave
    ctorFn,       \* limit.js: the `fn` argument of limit(fn, limit)
    ctorLimit,    \* limit.js: the `limit` argument of limit(fn, limit)
    ctorRes       \* limit.js: how limit(fn, limit) ended

limVars == <<limit, processing, queue, calls, runs, invoked>>
coVars == <<generateKey, inFlightRequests, cocalls, promises, coinvoked>>
keyVars == <<keyArgs, keyRes>>
ctorVars == <<ctorFn, ctorLimit, ctorRes>>

\* ---- limit.js -----------------------------------------------------------

\* limit.js:44  if (processing < limit)
Admits(p, l) == p < l

\* a shift that returns the head and leaves it in the queue
ShiftKeep(q) == [entry |-> Head(q), rest |-> q]

\* limit.js:22  const {args, resolve} = queue.shift()
ShiftLast(q) == [entry |-> q[Len(q)], rest |-> SubSeq(q, 1, Len(q) - 1)]
QueueShift(q) == [entry |-> Head(q), rest |-> Tail(q)]

\* a .finally callback that decrements twice
DecrementTwice(p, res) == p - 2

\* limit.js:34  .finally(() => processing--) runs whatever the outcome `res`
DecrementOnSuccessOnly(p, res) == IF res.kind = "error" THEN p ELSE p - 1
FinallyDecrement(p, res) == p - 1

\* limit.js:23  .then((result) => resolve(result)): the entry's own resolve
\* is called with the result of the run made with the entry's args.
ResolveHead(entry, q) == IF Len(q) > 0 THEN q[1].resolve ELSE entry.resolve
ResolveTarget(entry, q) == entry.resolve

\* a run whose fn is called inside the step that starts it
InvokedAtOnce(args, to, viaNext) ==
    [args |-> args, to |-> to, viaNext |-> viaNext, st |-> "running", res |-> Pending]

\* limit.js:30-31  run(args) up to its await: processing++ and the job
\* Promise.resolve().then(() => fn(...args)) is put on the microtask queue.
NewRun(args, to, viaNext) ==
    [args |-> args, to |-> to, viaNext |-> viaNext, st |-> "admitted", res |-> Pending]

\* limit.js:43-49  the decorated function
LimitCall(a) ==
    /\ Len(calls) < MaxCalls
    /\ LET c == Len(calls) + 1 IN
       IF Admits(processing, limit)
       THEN /\ calls' = Append(calls, [args |-> a, path |-> "direct", outcome |-> Pending])
            /\ processing' = processing + 1
            /\ runs' = Append(runs, NewRun(a, c, FALSE))
            /\ UNCHANGED queue
       ELSE /\ calls' = Append(calls, [args |-> a, path |-> "queued", outcome |-> Pending])
            /\ queue' = Append(queue, [args |-> a, resolve |-> c])
            /\ UNCHANGED <<processing, runs>>
    /\ UNCHANGED <<limit, invoked>>

\* The microtask queue is first-in first-out: of the runs whose
\* .then(() => fn(...args)) job is waiting, the earliest started goes first.
InvokeJobs == {r \in 1..Len(runs) : runs[r].st = "admitted"}
NextInvokeJob == CHOOSE r \in InvokeJobs : \A s \in InvokeJobs : r <= s

\* limit.js:33  () => fn(...args); fn returns a pending result ...
InvokeAsync ==
    /\ InvokeJobs # {}
    /\ LET r == NextInvokeJob IN
       /\ runs' = [runs EXCEPT ![r].st = "running"]
       /\ invoked' = Append(invoked, [run |-> r, args |-> runs[r].args])
    /\ UNCHANGED <<limit, processing, queue, calls>>

\* ... or returns a plain value or throws synchronously: the promise of
\* line 33 is settled by the same job.
InvokeSync ==
    /\ InvokeJobs # {}
    /\ LET r == NextInvokeJob IN
       /\ \E o \in FnOutcomes(FnReturn(runs[r].args, Len(invoked) + 1)) :
             runs' = [runs EXCEPT ![r].st = "fnSettled", ![r].res = o]
       /\ invoked' = Append(invoked, [run |-> r, args |-> runs[r].args])
    /\ UNCHANGED <<limit, processing, queue, calls>>

\* The pending result fn returned settles (the wrapped function's own job).
InvocationNo(r) == CHOOSE i \in 1..Len(invoked) : invoked[i].run = r
FnSettle(r) ==
    /\ r \in 1..Len(runs)
    /\ runs[r].st = "running"
    /\ \E o \in FnOutcomes(FnReturn(runs[r].args, InvocationNo(r))) :
          runs' = [runs EXCEPT ![r].st = "fnSettled", ![r].res = o]
    /\ UNCHANGED <<limit, processing, queue, calls, invoked>>

\* limit.js:34  the .finally callback
Finally(r) ==
    /\ r \in 1..Len(runs)
    /\ runs[r].st = "fnSettled"
    /\ processing' = FinallyDecrement(processing, runs[r].res)
    /\ runs' = [runs EXCEPT ![r].st = "decremented"]
    /\ UNCHANGED <<limit, queue, calls, invoked>>

\* a delivery that rejects the caller's promise whatever the run's outcome
AlwaysRejects(cs, run, to) == [cs EXCEPT ![to].outcome = Failure("rejected")]

\* What the caller `to` of a run receives when run's promise settles with
\* `res`.  A direct call returns run(args) (limit.js:45), so it gets either
\* outcome; next() attaches only .then((result) => resolve(result))
\* (limit.js:23), so a rejection reaches no handler and the promise made at
\* limit.js:48 is never settled.
Delivered(cs, run, to) ==
    IF run.res.kind = "error" /\ run.viaNext
    THEN cs
    ELSE [cs EXCEPT ![to].outcome = run.res]

\* a test of the queue that never finds a waiting call
NeverWaiting(q) == FALSE

\* limit.js:36  queue.length > 0
QueueWaiting(q) == Len(q) > 0

\* limit.js:36-40  the continuation of run after its await.  The await
\* throws when fn failed, so lines 36-38 are skipped in that case.
Continue(r) ==
    /\ r \in 1..Len(runs)
    /\ runs[r].st = "decremented"
    /\ IF runs[r].res.kind = "error"
       THEN /\ runs' = [runs EXCEPT ![r].st = "done"]
            /\ calls' = Delivered(calls, runs[r], runs[r].to)
            /\ UNCHANGED <<processing, queue>>
       ELSE IF QueueWaiting(queue)
       THEN LET sh == QueueShift(queue) IN
            /\ queue' = sh.rest
            /\ processing' = processing + 1
            /\ runs' = Append([runs EXCEPT ![r].st = "done"],
                              NewRun(sh.entry.args, ResolveTarget(sh.entry, sh.rest), TRUE))
            /\ calls' = Delivered(calls, runs[r], runs[r].to)
       ELSE /\ runs' = [runs EXCEPT ![r].st = "done"]
            /\ calls' = Delivered(calls, runs[r], runs[r].to)
            /\ UNCHANGED <<processing, queue>>
    /\ UNCHANGED <<limit, invoked>>

\* limit.js:11-18  the state after limit(fn, limit) returned
LimInit ==
    /\ limit \in 1..MaxLimit
    /\ processing = 0
    /\ queue = <<>>
    /\ calls = <<>>
    /\ runs = <<>>
    /\ invoked = <<>>

\* ---- concurrency.js (the earlier limiter) --------------------------------
\* It uses the variables of limit.js: limit, processing, queue, calls, runs,
\* invoked, and the operators for the lines it has word for word in common
\* with limit.js: Admits (concurrency.js:25), QueueShift and ResolveTarget
\* (concurrency.js:8-9), Delivered (concurrency.js:9, 26).  A run is "running" while the result of fn is pending,
\* "fnSettled" once fn has returned a plain value, thrown, or its result has
\* settled, and "done" once run's code after the await has been executed or
\* skipped.

\* a continuation that leaves the counter alone
NoDecrement(p, res) == p

\* concurrency.js:15-16  processing-- is reached only when the await did
\* not throw
DecrementAfterAwait(p, res) == IF res.kind = "error" THEN p ELSE p - 1

\* concurrency.js:18  if (processing < limit && queue.length > 0)
AdmitsNext(p, l, q) == p < l /\ Len(q) > 0

\* concurrency.js:12-15  run(args) up to its await: processing++ and fn is
\* called at once; `o` is Pending when fn returned a pending result, else
\* the value it returned or the failure it threw or returned.
StartedRun(args, to, viaNext, o) ==
    [args |-> args, to |-> to, viaNext |-> viaNext,
     st |-> IF o = Pending THEN "running" ELSE "fnSettled", res |-> o]

\* what a call of fn made now, the next invocation, can give at once
FnAtOnce(args) == {Pending} \cup FnOutcomes(FnReturn(args, Len(invoked) + 1))

\* concurrency.js:24-30  the decorated function
ConcurrencyCall(a) ==
    /\ Len(calls) < MaxCalls
    /\ LET c == Len(calls) + 1 IN
       IF Admits(processing, limit)
       THEN /\ calls' = Append(calls, [args |-> a, path |-> "direct", outcome |-> Pending])
            /\ processing' = processing + 1
            /\ \E o \in FnAtOnce(a) : runs' = Append(runs, StartedRun(a, c, FALSE, o))
            /\ invoked' = Append(invoked, [run |-> Len(runs) + 1, args |-> a])
            /\ UNCHANGED queue
       ELSE /\ calls' = Append(calls, [args |-> a, path |-> "queued", outcome |-> Pending])
            /\ queue' = Append(queue, [args |-> a, resolve |-> c])
            /\ UNCHANGED <<processing, runs, invoked>>
    /\ UNCHANGED limit

\* The pending result fn returned settles (the wrapped function's own job).
ConcurrencyFnSettle(r) ==
    /\ r \in 1..Len(runs)
    /\ runs[r].st = "running"
    /\ \E o \in FnOutcomes(FnReturn(runs[r].args, InvocationNo(r))) :
          runs' = [runs EXCEPT ![r].st = "fnSettled", ![r].res = o]
    /\ UNCHANGED <<limit, processing, queue, calls, invoked>>

\* concurrency.js:15-21  the continuation of run after its await.  When fn
\* failed the await throws: lines 16-20 are skipped and run's promise is
\* rejected.  Otherwise processing--, and next() (lines 7-10) shifts the
\* head of the queue and calls run, which calls fn at once.
ConcurrencyContinue(r) ==
    /\ r \in 1..Len(runs)
    /\ runs[r].st = "fnSettled"
    /\ LET p == DecrementAfterAwait(processing, runs[r].res) IN
       IF runs[r].res.kind # "error" /\ AdmitsNext(p, limit, queue)
       THEN LET sh == QueueShift(queue) IN
            /\ queue' = sh.rest
            /\ processing' = p + 1
            /\ \E o \in FnAtOnce(sh.entry.args) :
                  runs' = Append([runs EXCEPT ![r].st = "done"],
                                 StartedRun(sh.entry.args, ResolveTarget(sh.entry, sh.rest), TRUE, o))
            /\ invoked' = Append(invoked, [run |-> Len(runs) + 1, args |-> sh.entry.args])
       ELSE /\ processing' = p
            /\ runs' = [runs EXCEPT ![r].st = "done"]
            /\ UNCHANGED <<queue, invoked>>
    /\ calls' = Delivered(calls, runs[r], runs[r].to)
    /\ UNCHANGED limit

\* concurrency.js:1-5  the state after concurrency(fn, limit) returned
ConcurrencyInit ==
    /\ limit \in 1..MaxLimit
    /\ processing = 0
    /\ queue = <<>>
    /\ calls = <<>>
    /\ runs = <<>>
    /\ invoked = <<>>

\* ---- coalesce.js --------------------------------------------------------

\* The JavaScript values passed as arguments: `type` is what typeof gives.
\* `safe` is what Number.isSafeInteger gives for a number; the numbers it
\* rejects (2^53 and above, fractions, NaN) never reach the key encoding.
Str(s) == [type |-> "string", str |-> s, num |-> 0, bool |-> FALSE, safe |-> TRUE]
Num(n) == [type |-> "number", str |-> "", num |-> n, bool |-> FALSE, safe |-> TRUE]
Bool(b) == [type |-> "boolean", str |-> "", num |-> 0, bool |-> b, safe |-> TRUE]
Obj == [type |-> "object", str |-> "", num |-> 0, bool |-> FALSE, safe |-> TRUE]
UnsafeNum == [type |-> "number", str |-> "", num |-> 0, bool |-> FALSE, safe |-> FALSE]
Fun == [type |-> "function", str |-> "", num |-> 0, bool |-> FALSE, safe |-> TRUE]

\* the argument tuples the callers of the coalesced function use
CoArgs == {<<>>, <<Str("DEFAULT")>>, <<Num(1)>>, <<Str("1")>>, <<Obj>>}

\* the argument tuples of the calls that createKey may reject
ErrArgs == {<<Num(1)>>, <<Obj>>, <<UnsafeNum>>, <<UnsafeNum, Obj>>, <<Num(1), Fun>>}

\* String(value), as a template literal converts a value
ToJsString(value) ==
    CASE value.type = "string" -> value.str
      [] value.type = "number" -> ToString(value.num)
      [] value.type = "boolean" -> (IF value.bool THEN "true" ELSE "false")
      [] OTHER -> "[object Object]"

\* a prependType that leaves the type tag out
PrependNothing(value) == ToJsString(value)

\* coalesce.js:176-185
prependType(value) ==
    CASE value.type = "string" -> "s" \o value.str
      [] value.type = "number" -> "n" \o ToString(value.num)
      [] value.type = "boolean" -> "b" \o (IF value.bool THEN "true" ELSE "false")
      [] OTHER -> "undefined"

\* coalesce.js:169
wrap(arg) == "{" \o arg \o "}"

\* coalesce.js:163
sanitiseArgs(args) == [i \in 1..Len(args) |-> wrap(prependType(args[i]))]

\* Array.prototype.join
RECURSIVE Join(_, _)
Join(strs, sep) ==
    IF Len(strs) = 0 THEN ""
    ELSE IF Len(strs) = 1 THEN strs[1]
    ELSE strs[1] \o sep \o Join(Tail(strs), sep)

\* a validateArgs that accepts everything
AcceptAll(args) == "ok"

\* coalesce.js:195-209  the first argument validateArgs rejects, 0 if none
InvalidArgs(args) ==
    {i \in 1..Len(args) :
        \/ args[i].type \notin {"string", "number", "boolean"}
        \/ (args[i].type = "number" /\ ~args[i].safe)}
validateArgs(args) ==
    IF InvalidArgs(args) = {} THEN "ok"
    ELSE LET i == CHOOSE j \in InvalidArgs(args) : \A k \in InvalidArgs(args) : j <= k IN
         IF args[i].type \notin {"string", "number", "boolean"}
         THEN "Invalid parameter type: " \o args[i].type
                 \o ".\nCreate a generateKey callback to use complex data types."
         ELSE "Unable to generate key: Provided integer exceeds maximum safe integer size"

\* the generateKey callback of the tests: (param1, param2) => `${param1}-${param2}`
JsParam(args, i) == IF i <= Len(args) THEN ToJsString(args[i]) ELSE "undefined"
customKey(args) == JsParam(args, 1) \o "-" \o JsParam(args, 2)

\* a createKey that joins the bare texts of the arguments
JoinTexts(args, gk) ==
    IF gk # "none" THEN [err |-> "ok", key |-> customKey(args)]
    ELSE IF Len(args) > 0
    THEN IF validateArgs(args) # "ok"
         THEN [err |-> validateArgs(args), key |-> ""]
         ELSE [err |-> "ok", key |-> Join([i \in 1..Len(args) |-> ToJsString(args[i])], "|")]
    ELSE [err |-> "ok", key |-> "DEFAULT"]

\* a createKey that validates and encodes the arguments although a
\* generateKey was given
AlwaysAutomatic(args, gk) == JoinTexts(args, "none")

\* a createKey that does not append the number of arguments
NoCountSuffix(args, gk) ==
    IF gk # "none" THEN [err |-> "ok", key |-> customKey(args)]
    ELSE IF Len(args) > 0
    THEN IF validateArgs(args) # "ok"
         THEN [err |-> validateArgs(args), key |-> ""]
         ELSE [err |-> "ok", key |-> Join(sanitiseArgs(args), "|")]
    ELSE [err |-> "ok", key |-> "DEFAULT"]

\* coalesce.js:141-155  createKey: [err, key]; err # "ok" is the message of
\* the CoalesceKeyError it throws.
createKey(args, gk) ==
    IF gk # "none" THEN [err |-> "ok", key |-> customKey(args)]
    ELSE IF Len(args) > 0
    THEN IF validateArgs(args) # "ok"
         THEN [err |-> validateArgs(args), key |-> ""]
         ELSE [err |-> "ok",
               key |-> Join(sanitiseArgs(args), "|") \o "|" \o ToString(Len(args))]
    ELSE [err |-> "ok", key |-> "DEFAULT"]

\* coalesce.js:120  inFlightRequests.has(key)
NeverHas(m, k) == FALSE
MapHas(m, k) == k \in DOMAIN m

\* coalesce.js:121  inFlightRequests.get(key)
GetLatest(m, k) == CHOOSE p \in {m[j] : j \in DOMAIN m} : \A q \in {m[j] : j \in DOMAIN m} : q <= p
MapGet(m, k) == m[k]

\* coalesce.js:128  inFlightRequests.set(key, promise)
SetNothing(m, k, p) == m
MapSet(m, k, p) == [j \in DOMAIN m \cup {k} |-> IF j = k THEN p ELSE m[j]]

\* coalesce.js:126  .finally(() => inFlightRequests.delete(key)) runs
\* whatever the outcome `res`
DeleteOnSuccessOnly(m, k, res) ==
    IF res.kind = "error" THEN m ELSE [j \in DOMAIN m \ {k} |-> m[j]]
KeepEntry(m, k, res) == m
FinallyDelete(m, k, res) == [j \in DOMAIN m \ {k} |-> m[j]]

\* coalesce.js:117-131  the decorated function.  `present` records whether
\* the map held an entry for the call's key when the call was made.
CoalesceCall(args) ==
    /\ Len(cocalls) < MaxCoCalls
    /\ LET ck == createKey(args, generateKey)
           p == Len(promises) + 1
       IN
       IF ck.err # "ok"
       THEN /\ cocalls' = Append(cocalls, [args |-> args, key |-> "", promise |-> 0,
                                           present |-> FALSE, outcome |-> Failure(ck.err)])
            /\ UNCHANGED <<inFlightRequests, promises>>
       ELSE IF MapHas(inFlightRequests, ck.key)
       THEN /\ cocalls' = Append(cocalls, [args |-> args, key |-> ck.key,
                                           promise |-> MapGet(inFlightRequests, ck.key),
                                           present |-> ck.key \in DOMAIN inFlightRequests,
                                           outcome |-> Pending])
            /\ UNCHANGED <<inFlightRequests, promises>>
       ELSE /\ promises' = Append(promises, [key |-> ck.key, args |-> args,
                                             st |-> "scheduled", res |-> Pending])
            /\ inFlightRequests' = MapSet(inFlightRequests, ck.key, p)
            /\ cocalls' = Append(cocalls, [args |-> args, key |-> ck.key, promise |-> p,
                                           present |-> ck.key \in DOMAIN inFlightRequests,
                                           outcome |-> Pending])
    /\ UNCHANGED <<generateKey, coinvoked>>

\* The microtask queue is first-in first-out: of the promises whose
\* .then(() => fn(...args)) job is waiting, the earliest made goes first.
CoInvokeJobs == {p \in 1..Len(promises) : promises[p].st = "scheduled"}
CoNextInvokeJob == CHOOSE p \in CoInvokeJobs : \A q \in CoInvokeJobs : p <= q

\* coalesce.js:125  () => fn(...args); fn returns a pending result ...
CoInvokeAsync ==
    /\ CoInvokeJobs # {}
    /\ LET p == CoNextInvokeJob IN
       /\ promises' = [promises EXCEPT ![p].st = "running"]
       /\ coinvoked' = Append(coinvoked, [promise |-> p, args |-> promises[p].args])
    /\ UNCHANGED <<generateKey, inFlightRequests, cocalls>>

\* ... or returns a plain value or throws synchronously
CoInvokeSync ==
    /\ CoInvokeJobs # {}
    /\ LET p == CoNextInvokeJob IN
       /\ \E o \in FnOutcomes(FnReturn("", Len(coinvoked) + 1)) :
             promises' = [promises EXCEPT ![p].st = "fnSettled", ![p].res = o]
       /\ coinvoked' = Append(coinvoked, [promise |-> p, args |-> promises[p].args])
    /\ UNCHANGED <<generateKey, inFlightRequests, cocalls>>

\* The pending result fn returned settles (the wrapped function's own job).
CoInvocationNo(p) == CHOOSE i \in 1..Len(coinvoked) : coinvoked[i].promise = p
CoFnSettle(p) ==
    /\ p \in 1..Len(promises)
    /\ promises[p].st = "running"
    /\ \E o \in FnOutcomes(FnReturn("", CoInvocationNo(p))) :
          promises' = [promises EXCEPT ![p].st = "fnSettled", ![p].res = o]
    /\ UNCHANGED <<generateKey, inFlightRequests, cocalls, coinvoked>>

\* coalesce.js:126  the .finally callback; the promise stored in the map
\* then settles with fn's outcome, which every call that returned that
\* promise receives.
CoFinally(p) ==
    /\ p \in 1..Len(promises)
    /\ promises[p].st = "fnSettled"
    /\ inFlightRequests' = FinallyDelete(inFlightRequests, promises[p].key, promises[p].res)
    /\ promises' = [promises EXCEPT ![p].st = "settled"]
    /\ cocalls' = [c \in 1..Len(cocalls) |->
                      IF cocalls[c].promise = p
                      THEN [cocalls[c] EXCEPT !.outcome = promises[p].res]
                      ELSE cocalls[c]]
    /\ UNCHANGED <<generateKey, coinvoked>>

\* coalesce.js:114-115  the state after coalesce(fn, generateKey) returned
CoInit ==
    /\ generateKey \in {"none", "custom"}
    /\ inFlightRequests = <<>>
    /\ cocalls = <<>>
    /\ promises = <<>>
    /\ coinvoked = <<>>

\* ---- createKey on its own ----------------------------------------------

\* The strings tried as arguments: up to MaxTokens pieces, among them the
\* delimiters and type tags of the encoding and the texts of a number and of
\* a boolean.
KeyTokens == {"}|{", "s", "1", "true"}
RECURSIVE TokenStrings(_)
TokenStrings(n) ==
    IF n = 0 THEN {""}
    ELSE TokenStrings(n - 1) \cup {s \o t : s \in TokenStrings(n - 1), t \in KeyTokens}
KeyValues ==
    {Str(s) : s \in TokenStrings(MaxTokens)} \cup {Num(1), Num(0), Num(-1)}
        \cup {Bool(TRUE), Bool(FALSE)}
KeyTuples == {<<a>> : a \in KeyValues} \cup {<<a, b>> : a, b \in KeyValues}

KeyUnset == [err |-> "unset", key |-> ""]

KeyInit ==
    /\ keyArgs \in KeyTuples
    /\ keyRes = KeyUnset

\* coalesce.js:118  const key = createKey(args, generateKey)
CreateKeyStep ==
    /\ keyRes = KeyUnset
    /\ keyRes' = createKey(keyArgs, "none")
    /\ UNCHANGED keyArgs

KeyIdle == keyArgs = <<>> /\ keyRes = KeyUnset

\* ---- limit(fn, limit): construction ------------------------------------

\* The JavaScript values passed to limit(): `type` is what typeof gives; a
\* number is finite (an integer `num`), NaN, Infinity or -Infinity.
JsFinite(n) == [type |-> "number", kind |-> "finite", num |-> n]
JsSpecial(k) == [type |-> "number", kind |-> k, num |-> 0]
JsOther(t) == [type |-> t, kind |-> "-", num |-> 0]

CtorFns == {JsOther("function"), JsOther("string"), JsOther("object"), JsOther("undefined")}
CtorLimits ==
    {JsFinite(n) : n \in -MaxCtorInt..MaxCtorInt}
        \cup {JsSpecial("NaN"), JsSpecial("Infinity"), JsSpecial("-Infinity")}
        \cup {JsOther("string"), JsOther("undefined"), JsOther("object")}

\* limit.js:67  limit < 1, for a value whose typeof is 'number': every
\* comparison with NaN is false.
JsLess(v, n) ==
    CASE v.kind = "finite" -> v.num < n
      [] v.kind = "-Infinity" -> TRUE
      [] OTHER -> FALSE

\* limit.js:58-70  validateArgs: "ok", or the message of the TypeError
limitValidateArgs(fn, lim) ==
    IF fn.type # "function" THEN "parameter must be a function"
    ELSE IF lim.type # "number" THEN "limit must be a number"
    ELSE IF JsLess(lim, 1) THEN "limit must be >= 1"
    ELSE "ok"

CtorInit ==
    /\ ctorFn \in CtorFns
    /\ ctorLimit \in CtorLimits
    /\ ctorRes = "unset"

\* limit.js:11-12  limit(fn, limit) calls validateArgs(fn, limit)
Construct ==
    /\ ctorRes = "unset"
    /\ ctorRes' = limitValidateArgs(ctorFn, ctorLimit)
    /\ UNCHANGED <<ctorFn, ctorLimit>>

CtorIdle == ctorFn = JsOther("function") /\ ctorLimit = JsFinite(1) /\ ctorRes = "ok"

\* ---- the specifications ------------------------------------------------
vars == <<limVars, coVars, keyVars, ctorVars>>
notLim == <<coVars, keyVars, ctorVars>>
notCo == <<limVars, keyVars, ctorVars>>

\* a limiter on its own: no coalescer is in use
CoIdle ==
    /\ generateKey = "none"
    /\ inFlightRequests = <<>>
    /\ cocalls = <<>>
    /\ promises = <<>>
    /\ coinvoked = <<>>

Init == LimInit /\ CoIdle /\ KeyIdle /\ CtorIdle

Next ==
    \/ \E a \in LimArgs : LimitCall(a) /\ UNCHANGED notLim
    \/ InvokeAsync /\ UNCHANGED notLim
    \/ InvokeSync /\ UNCHANGED notLim
    \/ \E r \in 1..Len(runs) : FnSettle(r) /\ UNCHANGED notLim
    \/ \E r \in 1..Len(runs) : Finally(r) /\ UNCHANGED notLim
    \/ \E r \in 1..Len(runs) : Continue(r) /\ UNCHANGED notLim

Spec == Init /\ [][Next]_vars

\* The limiter when every job the program has scheduled is eventually run
\* and every pending result of fn eventually settles; nothing obliges a
\* caller to make a call.
Progress ==
    \/ InvokeAsync /\ UNCHANGED notLim
    \/ InvokeSync /\ UNCHANGED notLim
    \/ \E r \in 1..Len(runs) : FnSettle(r) /\ UNCHANGED notLim
    \/ \E r \in 1..Len(runs) : Finally(r) /\ UNCHANGED notLim
    \/ \E r \in 1..Len(runs) : Continue(r) /\ UNCHANGED notLim

SpecLive == Init /\ [][Next]_vars /\ WF_vars(Progress)

\* the earlier limiter, concurrency(fn, limit), on its own
InitConcurrency == ConcurrencyInit /\ CoIdle /\ KeyIdle /\ CtorIdle

NextConcurrency ==
    \/ \E a \in LimArgs : ConcurrencyCall(a) /\ UNCHANGED notLim
    \/ \E r \in 1..Len(runs) : ConcurrencyFnSettle(r) /\ UNCHANGED notLim
    \/ \E r \in 1..Len(runs) : ConcurrencyContinue(r) /\ UNCHANGED notLim

SpecConcurrency == InitConcurrency /\ [][NextConcurrency]_vars

\* a coalescer on its own: no limiter is in use
LimIdle ==
    /\ limit = 1
    /\ processing = 0
    /\ queue = <<>>
    /\ calls = <<>>
    /\ runs = <<>>
    /\ invoked = <<>>

InitCoalesce == CoInit /\ LimIdle /\ KeyIdle /\ CtorIdle

NextCoalesce ==
    \/ \E args \in CoArgs : CoalesceCall(args) /\ UNCHANGED notCo
    \/ CoInvokeAsync /\ UNCHANGED notCo
    \/ CoInvokeSync /\ UNCHANGED notCo
    \/ \E p \in 1..Len(promises) : CoFnSettle(p) /\ UNCHANGED notCo
    \/ \E p \in 1..Len(promises) : CoFinally(p) /\ UNCHANGED notCo

SpecCoalesce == InitCoalesce /\ [][NextCoalesce]_vars

\* The coalescer when every job the program has scheduled is eventually run
\* and every pending result of fn eventually settles; nothing obliges a
\* caller to make a call.
CoProgress ==
    \/ CoInvokeAsync /\ UNCHANGED notCo
    \/ CoInvokeSync /\ UNCHANGED notCo
    \/ \E p \in 1..Len(promises) : CoFnSettle(p) /\ UNCHANGED notCo
    \/ \E p \in 1..Len(promises) : CoFinally(p) /\ UNCHANGED notCo

\* coalesce(fn): no generateKey
InitCoalesceAuto == CoInit /\ generateKey = "none" /\ LimIdle /\ KeyIdle /\ CtorIdle

SpecCoalesceLive == InitCoalesceAuto /\ [][NextCoalesce]_vars /\ WF_vars(CoProgress)

\* the coalescer without a generateKey, called with arguments createKey rejects
InitCoalesceErr == CoInit /\ generateKey = "none" /\ LimIdle /\ KeyIdle /\ CtorIdle

NextCoalesceErr ==
    \/ \E args \in ErrArgs : CoalesceCall(args) /\ UNCHANGED notCo
    \/ CoInvokeAsync /\ UNCHANGED notCo
    \/ CoInvokeSync /\ UNCHANGED notCo
    \/ \E p \in 1..Len(promises) : CoFnSettle(p) /\ UNCHANGED notCo
    \/ \E p \in 1..Len(promises) : CoFinally(p) /\ UNCHANGED notCo

SpecCoalesceErr == InitCoalesceErr /\ [][NextCoalesceErr]_vars

\* ---- the two decorators combined ---------------------------------------

\* the one string argument of the calls made to a combined decorator
ComposedArgs == {"One", "Two", "Three"}

\* coalesce(limit(fn, limit)): the function the coalescer invokes is the
\* limiter's decorated function, which always returns a pending promise.
\* coalesce.js:125  () => fn(...args), with fn = limit.js:43-49
CoInvokeLimiter ==
    /\ CoInvokeJobs # {}
    /\ CoInvokeAsync
    /\ LimitCall(promises[CoNextInvokeJob].args[1].str)

\* coalesce.js:125  the promise the limiter returned for the i-th invocation
\* (its i-th call) has settled, and the promise of .then() follows it
CoSettleFromLimiter(p) ==
    /\ p \in 1..Len(promises)
    /\ promises[p].st = "running"
    /\ calls[CoInvocationNo(p)].outcome # Pending
    /\ promises' = [promises EXCEPT ![p].st = "fnSettled",
                                     ![p].res = calls[CoInvocationNo(p)].outcome]
    /\ UNCHANGED <<generateKey, inFlightRequests, cocalls, coinvoked>>

InitCoLim == LimInit /\ CoInit /\ generateKey = "none" /\ KeyIdle /\ CtorIdle

NextCoLim ==
    \/ \E a \in ComposedArgs : CoalesceCall(<<Str(a)>>) /\ UNCHANGED notCo
    \/ CoInvokeLimiter /\ UNCHANGED <<keyVars, ctorVars>>
    \/ \E p \in 1..Len(promises) : CoSettleFromLimiter(p) /\ UNCHANGED notCo
    \/ \E p \in 1..Len(promises) : CoFinally(p) /\ UNCHANGED notCo
    \/ InvokeAsync /\ UNCHANGED notLim
    \/ InvokeSync /\ UNCHANGED notLim
    \/ \E r \in 1..Len(runs) : FnSettle(r) /\ UNCHANGED notLim
    \/ \E r \in 1..Len(runs) : Finally(r) /\ UNCHANGED notLim
    \/ \E r \in 1..Len(runs) : Continue(r) /\ UNCHANGED notLim

SpecCoLim == InitCoLim /\ [][NextCoLim]_vars

\* the jobs of the combined decorator: every step but a caller's call
CoLimProgress ==
    \/ CoInvokeLimiter /\ UNCHANGED <<keyVars, ctorVars>>
    \/ \E p \in 1..Len(promises) : CoSettleFromLimiter(p) /\ UNCHANGED notCo
    \/ \E p \in 1..Len(promises) : CoFinally(p) /\ UNCHANGED notCo
    \/ InvokeAsync /\ UNCHANGED notLim
    \/ InvokeSync /\ UNCHANGED notLim
    \/ \E r \in 1..Len(runs) : FnSettle(r) /\ UNCHANGED notLim
    \/ \E r \in 1..Len(runs) : Finally(r) /\ UNCHANGED notLim
    \/ \E r \in 1..Len(runs) : Continue(r) /\ UNCHANGED notLim

\* limit(coalesce(fn), limit): the function the limiter invokes is the
\* coalescer's decorated function, an async function.
\* limit.js:33  () => fn(...args), with fn = coalesce.js:117-131
InvokeCoalescer ==
    /\ InvokeJobs # {}
    /\ InvokeAsync
    /\ CoalesceCall(<<Str(runs[NextInvokeJob].args)>>)

\* limit.js:33  the promise the coalescer returned for the i-th invocation
\* (its i-th call) has settled, and the promise of .then() follows it
SettleFromCoalescer(r) ==
    /\ r \in 1..Len(runs)
    /\ runs[r].st = "running"
    /\ cocalls[InvocationNo(r)].outcome # Pending
    /\ runs' = [runs EXCEPT ![r].st = "fnSettled", ![r].res = cocalls[InvocationNo(r)].outcome]
    /\ UNCHANGED <<limit, processing, queue, calls, invoked>>

InitLimCo == LimInit /\ CoInit /\ generateKey = "none" /\ KeyIdle /\ CtorIdle

NextLimCo ==
    \/ \E a \in ComposedArgs : LimitCall(a) /\ UNCHANGED notLim
    \/ InvokeCoalescer /\ UNCHANGED <<keyVars, ctorVars>>
    \/ \E r \in 1..Len(runs) : SettleFromCoalescer(r) /\ UNCHANGED notLim
    \/ \E r \in 1..Len(runs) : Finally(r) /\ UNCHANGED notLim
    \/ \E r \in 1..Len(runs) : Continue(r) /\ UNCHANGED notLim
    \/ CoInvokeAsync /\ UNCHANGED notCo
    \/ CoInvokeSync /\ UNCHANGED notCo
    \/ \E p \in 1..Len(promises) : CoFnSettle(p) /\ UNCHANGED notCo
    \/ \E p \in 1..Len(promises) : CoFinally(p) /\ UNCHANGED notCo

SpecLimCo == InitLimCo /\ [][NextLimCo]_vars

\* createKey applied to one argument tuple
InitKey == KeyInit /\ LimIdle /\ CoIdle /\ CtorIdle
NextKey == CreateKeyStep /\ UNCHANGED <<limVars, coVars, ctorVars>>
SpecKey == InitKey /\ [][NextKey]_vars

\* one construction of a limiter
InitCtor == CtorInit /\ LimIdle /\ CoIdle /\ KeyIdle
NextCtor == Construct /\ UNCHANGED <<limVars, coVars, keyVars>>
SpecCtor == InitCtor /\ [][NextCtor]_vars

\* ---- derived views of the limiter's history -----------------------------
IdSeq(n) == [i \in 1..n |-> i]
IsPrefix(s, t) == Len(s) <= Len(t) /\ \A i \in 1..Len(s) : s[i] = t[i]

\* the calls that were pushed on the queue, in the order they were pushed
QueuedIds == SelectSeq(IdSeq(Len(calls)), LAMBDA c : calls[c].path = "queued")
\* the runs next() started, in the order it started them
DequeuedRuns == SelectSeq(IdSeq(Len(runs)), LAMBDA r : runs[r].viaNext)
DequeuedIds == [i \in 1..Len(DequeuedRuns) |-> runs[DequeuedRuns[i]].to]
\* the invocations of fn made for dequeued entries, in invocation order
InvokedQueued == SelectSeq(invoked, LAMBDA i : runs[i.run].viaNext)
InvokedQueuedIds == [i \in 1..Len(InvokedQueued) |-> runs[InvokedQueued[i].run].to]
\* the entries still waiting
WaitingIds == [i \in 1..Len(queue) |-> queue[i].resolve]

Unsettled == {r \in 1..Len(runs) : runs[r].st \in {"admitted", "running"}}
RunsOf(c) == {r \in 1..Len(runs) : runs[r].to = c}
AllFinalised == \A r \in 1..Len(runs) : runs[r].st \in {"decremented", "done"}

\* ---- C1 -----------------------------------------------------------------
\* C1 (as claimed): the counter `processing`, and the number of invocations
\* admitted and not yet settled, never exceed the limit.
C1_AdmissionBound ==
    /\ processing <= limit
    /\ Cardinality(Unsettled) <= limit

\* ---- C3 -----------------------------------------------------------------
\* C3: entries leave the queue in the order they were pushed: the calls
\* next() has admitted followed by the calls still waiting are exactly the
\* queued calls in queueing order, and fn is invoked for dequeued entries in
\* that same order.
C3_FifoAdmission ==
    /\ DequeuedIds \o WaitingIds = QueuedIds
    /\ IsPrefix(InvokedQueuedIds, DequeuedIds)
    /\ \A i \in 1..Len(DequeuedRuns) :
          runs[DequeuedRuns[i]].args = calls[QueuedIds[i]].args

\* Two calls were queued and fn has been invoked for both.
C3_Witness == Len(QueuedIds) >= 2 /\ Len(InvokedQueuedIds) >= 2

\* ---- C4 -----------------------------------------------------------------
\* C4: a call that has resolved with a value resolved with the value fn
\* returned to the one run made for that call with that call's own args, and
\* every run that ended successfully delivered its value to its own call.
C4_ResultDelivery ==
    /\ \A c \in 1..Len(calls) :
          calls[c].outcome.kind = "value" =>
             \E r \in RunsOf(c) :
                /\ runs[r].st = "done"
                /\ runs[r].args = calls[c].args
                /\ runs[r].res = calls[c].outcome
                /\ \E i \in 1..Len(invoked) :
                      /\ invoked[i].run = r
                      /\ invoked[i].args = calls[c].args
                      /\ calls[c].outcome = Value(FnReturn(calls[c].args, i))
    /\ \A r \in 1..Len(runs) :
          /\ runs[r].args = calls[runs[r].to].args
          /\ (runs[r].st = "done" /\ runs[r].res.kind = "value")
                => calls[runs[r].to].outcome = runs[r].res
    /\ \A r, s \in 1..Len(runs) : runs[r].to = runs[s].to => r = s

\* A direct call and a queued call have resolved with different values.
C4_Witness ==
    \E c, d \in 1..Len(calls) :
       /\ calls[c].path = "direct" /\ calls[d].path = "queued"
       /\ calls[c].outcome.kind = "value" /\ calls[d].outcome.kind = "value"
       /\ calls[c].outcome # calls[d].outcome
       /\ calls[c].args # calls[d].args

\* ---- C5 -----------------------------------------------------------------
\* C5 (as claimed): when the invocation made for a call has failed and run
\* has finished, that call's caller has received the failure, whether the
\* call was admitted immediately or from the queue; no other call has.
C5_FailureForwarded ==
    \A r \in 1..Len(runs) :
       (runs[r].st = "done" /\ runs[r].res.kind = "error") =>
          /\ calls[runs[r].to].outcome = runs[r].res
          /\ \A c \in 1..Len(calls) :
                (c # runs[r].to /\ calls[c].outcome.kind = "error") =>
                   \E s \in RunsOf(c) : runs[s].res = calls[c].outcome

\* ---- C6 -----------------------------------------------------------------
\* C6 (as claimed): when run continues after an invocation that failed while
\* the queue is non-empty, the head of the queue is dequeued and admitted,
\* as it is after a successful invocation.
C6_DequeueOnFailure ==
    [][\A r \in 1..Len(runs) :
          (/\ runs[r].st = "decremented"
           /\ runs'[r].st = "done"
           /\ runs[r].res.kind = "error"
           /\ Len(queue) > 0)
          => /\ queue' = Tail(queue)
             /\ Len(runs') = Len(runs) + 1
             /\ runs'[Len(runs')].to = Head(queue).resolve]_vars

\* ---- C7 -----------------------------------------------------------------
\* C7: a failing invocation frees its slot.  The counter equals the number
\* of runs whose .finally has not run yet, so once every invocation made so
\* far has settled (failing or not) the counter is 0, and a call issued then
\* is admitted immediately: it starts a run instead of being queued.
C7_CountRestored ==
    /\ [](processing = Cardinality({r \in 1..Len(runs) :
                           runs[r].st \in {"admitted", "running", "fnSettled"}}))
    /\ [][(AllFinalised /\ Len(calls') = Len(calls) + 1) =>
             /\ processing = 0
             /\ processing' = 1
             /\ queue' = queue
             /\ Len(runs') = Len(runs) + 1
             /\ runs'[Len(runs')].to = Len(calls')
             /\ calls'[Len(calls')].path = "direct"]_vars

\* `limit` calls failed one after another, each settled before the next was
\* issued, and one more call was then admitted directly and has settled
\* with the outcome of its own invocation.
C7_Witness ==
    /\ Len(calls) = limit + 1
    /\ Len(runs) = limit + 1
    /\ queue = <<>>
    /\ \A c \in 1..limit :
          /\ calls[c].path = "direct"
          /\ calls[c].outcome.kind = "error"
    /\ calls[limit + 1].path = "direct"
    /\ runs[limit + 1].st = "done"
    /\ calls[limit + 1].outcome = runs[limit + 1].res
    /\ processing = 0

\* ---- derived views of the coalescer's history ---------------------------
CallsOf(p) == {c \in 1..Len(cocalls) : cocalls[c].promise = p}
Creator(p) == CHOOSE c \in CallsOf(p) : \A d \in CallsOf(p) : c <= d
PromisesOf(k) == {p \in 1..Len(promises) : promises[p].key = k}
KeysUsed == {promises[p].key : p \in 1..Len(promises)}
\* a step of the decorated function that produced a key
IsKeyedCall == Len(cocalls') = Len(cocalls) + 1 /\ cocalls'[Len(cocalls')].promise # 0
NewCall == cocalls'[Len(cocalls')]
StartsFresh ==
    /\ Len(promises') = Len(promises) + 1
    /\ NewCall.promise = Len(promises')
    /\ promises'[Len(promises')].st = "scheduled"
    /\ NewCall.outcome = Pending

\* ---- C2 -----------------------------------------------------------------
\* C2: for every key at most one invocation of fn is scheduled or running
\* and unsettled, it is the one the map holds for the key, and a call made
\* while the map held an entry for its key started no invocation: the
\* promises made are exactly those of the calls that found no entry.
C2_SingleFlight ==
    /\ \A k \in KeysUsed :
          Cardinality({p \in PromisesOf(k) : promises[p].st # "settled"}) <= 1
    /\ \A p \in 1..Len(promises) :
          promises[p].st # "settled" =>
             /\ promises[p].key \in DOMAIN inFlightRequests
             /\ inFlightRequests[promises[p].key] = p
    /\ Len(promises) =
          Cardinality({c \in 1..Len(cocalls) :
                          cocalls[c].promise # 0 /\ ~cocalls[c].present})
    /\ \A c \in 1..Len(cocalls) :
          cocalls[c].present => Creator(cocalls[c].promise) < c
    /\ \A i, j \in 1..Len(coinvoked) :
          coinvoked[i].promise = coinvoked[j].promise => i = j

\* A call found an entry for its key while the one invocation for that key
\* was running.
C2_Witness ==
    \E c \in 1..Len(cocalls) :
       /\ cocalls[c].present
       /\ promises[cocalls[c].promise].st = "running"
       /\ Len(coinvoked) = 1

\* ---- C8 -----------------------------------------------------------------
\* C8: a call made while the map held an entry for its key has the promise
\* of the call that created the entry, so it settles with that call's
\* outcome, and fn was invoked with the creating call's arguments only.
C8_OutcomeSharing ==
    /\ \A c \in 1..Len(cocalls) :
          cocalls[c].present =>
             LET p == cocalls[c].promise
                 d == Creator(p)
             IN /\ d < c
                /\ ~cocalls[d].present
                /\ cocalls[d].key = cocalls[c].key
                /\ promises[p].key = cocalls[c].key
                /\ cocalls[c].outcome = cocalls[d].outcome
                /\ promises[p].st = "settled" => cocalls[c].outcome = promises[p].res
                /\ promises[p].st # "settled" => cocalls[c].outcome = Pending
    /\ \A i \in 1..Len(coinvoked) :
          coinvoked[i].args = cocalls[Creator(coinvoked[i].promise)].args

\* Two calls with different argument tuples shared an entry (their keys
\* from generateKey are equal) and both have settled with fn's value.
C8_Witness ==
    \E c \in 1..Len(cocalls) :
       /\ cocalls[c].present
       /\ cocalls[c].outcome.kind = "value"
       /\ cocalls[c].args # cocalls[Creator(cocalls[c].promise)].args

\* ---- C9 -----------------------------------------------------------------
\* C9: when the shared invocation for a key has failed and its cleanup has
\* run, every call that shared the entry has that failure, the map no longer
\* holds the entry, and a call with that key made then starts a new
\* invocation, whose outcome is whatever fn gives that time.
C9_FailureFanOut ==
    /\ [](\A p \in 1..Len(promises) :
             (promises[p].st = "settled" /\ promises[p].res.kind = "error") =>
                /\ \A c \in CallsOf(p) : cocalls[c].outcome = promises[p].res
                /\ ~(promises[p].key \in DOMAIN inFlightRequests
                        /\ inFlightRequests[promises[p].key] = p))
    /\ [][(/\ IsKeyedCall
           /\ PromisesOf(NewCall.key) # {}
           /\ \A p \in PromisesOf(NewCall.key) :
                 promises[p].st = "settled" /\ promises[p].res.kind = "error")
          => StartsFresh]_vars

\* Two calls shared an invocation that failed; a third call with the same
\* key, made after the cleanup, got its own invocation, which succeeded.
C9_Witness ==
    \E p, q \in 1..Len(promises) :
       /\ p < q
       /\ promises[p].key = promises[q].key
       /\ promises[p].res.kind = "error"
       /\ Cardinality(CallsOf(p)) >= 2
       /\ \A c \in CallsOf(p) : cocalls[c].outcome = promises[p].res
       /\ promises[q].st = "settled"
       /\ promises[q].res.kind = "value"
       /\ \A c \in CallsOf(q) : cocalls[c].outcome = promises[q].res

\* ---- C10 ----------------------------------------------------------------
\* C10 (as claimed): a call made at any point after the invocation of fn
\* for its key has settled starts a fresh invocation and does not get the
\* settled invocation's outcome.
C10_FreshAfterSettlement ==
    [][(/\ IsKeyedCall
        /\ PromisesOf(NewCall.key) # {}
        /\ \A p \in PromisesOf(NewCall.key) :
              promises[p].st \in {"fnSettled", "settled"})
       => StartsFresh]_vars

\* C10 (amended): a call made after the cleanup of the settled invocation
\* for its key has run (the .finally callback, which runs before any caller
\* is given the outcome) starts a fresh invocation and does not get the
\* settled invocation's outcome.
C10_FreshAfterCleanup ==
    [][(/\ IsKeyedCall
        /\ PromisesOf(NewCall.key) # {}
        /\ \A p \in PromisesOf(NewCall.key) : promises[p].st = "settled")
       => StartsFresh]_vars

\* Two invocations for one key, the second started after the first was
\* cleaned up, have both succeeded, and the later call has the value of the
\* second invocation, not of the first.
C10_Witness ==
    \E p, q \in 1..Len(promises) :
       /\ p < q
       /\ promises[p].key = promises[q].key
       /\ promises[p].st = "settled" /\ promises[p].res.kind = "value"
       /\ promises[q].st = "settled" /\ promises[q].res.kind = "value"
       /\ promises[p].res # promises[q].res
       /\ \A c \in CallsOf(q) : cocalls[c].outcome = promises[q].res

\* ---- C11 ----------------------------------------------------------------
KeyedCalls == {c \in 1..Len(cocalls) : cocalls[c].promise # 0}
KeysCalled == {cocalls[c].key : c \in KeyedCalls}
NoneSettled == \A p \in 1..Len(promises) : promises[p].st # "settled"

\* C11: while none of the calls made so far has settled, one promise (one
\* invocation of fn) has been made per distinct key among the calls, fn has
\* been invoked at most once for each and exactly once for each when no
\* invocation job is waiting, and calls with different keys never have the
\* same promise.
C11_OncePerKey ==
    /\ NoneSettled =>
          /\ Len(promises) = Cardinality(KeysCalled)
          /\ \A k \in KeysCalled : Cardinality(PromisesOf(k)) = 1
          /\ Len(coinvoked) <= Cardinality(KeysCalled)
          /\ CoInvokeJobs = {} => Len(coinvoked) = Cardinality(KeysCalled)
    /\ \A c, d \in KeyedCalls :
          cocalls[c].key # cocalls[d].key => cocalls[c].promise # cocalls[d].promise
    /\ \A i, j \in 1..Len(coinvoked) :
          coinvoked[i].promise = coinvoked[j].promise => i = j

\* A batch of three calls with two distinct keys: fn was invoked twice and
\* nothing has settled yet.
C11_Witness ==
    /\ Cardinality(KeyedCalls) = 3
    /\ Cardinality(KeysCalled) = 2
    /\ Len(coinvoked) = 2
    /\ \A p \in 1..Len(promises) : promises[p].st = "running"

\* ---- C12 ----
\* The tuples of KeyTuples other than the one createKey was applied to that
\* get the same key.
Colliding == {t \in KeyTuples : t # keyArgs /\ createKey(t, "none") = keyRes}

\* C12: without a generateKey, createKey gives two distinct argument tuples
\* of strings, safe integers and booleans different keys: no other tuple has
\* the key of the tuple createKey was applied to.
C12_KeyInjective == keyRes.err = "ok" => Colliding = {}

\* ---- C13 ----
\* C13: two single-argument calls whose arguments differ in runtime type or
\* in value get different automatic keys: no other single value has the key
\* of the one createKey was applied to.
C13_TypeDistinct ==
    (keyRes.err = "ok" /\ Len(keyArgs) = 1) =>
        \A v \in KeyValues :
            v # keyArgs[1] => createKey(<<v>>, "none").key # keyRes.key

\* createKey was applied to the number 1, whose text is that of the string
\* "1" of KeyValues.
C13_Witness ==
    /\ keyArgs = <<Num(1)>>
    /\ keyRes = [err |-> "ok", key |-> "{n1}|1"]
    /\ Str("1") \in KeyValues
\* ---- C14 ----
ZeroArgCalls == {c \in 1..Len(cocalls) : cocalls[c].args = <<>>}
ArgCalls == {c \in KeyedCalls : Len(cocalls[c].args) >= 1}
ZeroArgPromises == {cocalls[c].promise : c \in ZeroArgCalls}

Supported(a) == a.type \in {"string", "number", "boolean"}
Offending(args) == {i \in 1..Len(args) : ~Supported(args[i]) \/ ~args[i].safe}
FirstOffending(args) == CHOOSE i \in Offending(args) : \A j \in Offending(args) : i <= j
\* the message of the CoalesceKeyError for the first offending argument
KeyErrorFor(a) ==
    IF ~Supported(a)
    THEN "Invalid parameter type: " \o a.type
            \o ".\nCreate a generateKey callback to use complex data types."
    ELSE "Unable to generate key: Provided integer exceeds maximum safe integer size"
IsCall == Len(cocalls') = Len(cocalls) + 1

\* C15: without a generateKey, a call with an argument of an unsupported
\* type or an unsafe number fails with the CoalesceKeyError of its first
\* such argument; the call changes neither inFlightRequests nor the
\* invocations nor any other call, and fn is never invoked for it.
C15_KeyFailureIsolated ==
    /\ [](\A p \in 1..Len(promises) : Offending(promises[p].args) = {})
    /\ [](\A c \in 1..Len(cocalls) :
            Offending(cocalls[c].args) # {} =>
                /\ cocalls[c].promise = 0
                /\ cocalls[c].outcome =
                      Failure(KeyErrorFor(cocalls[c].args[FirstOffending(cocalls[c].args)])))
    /\ [][(IsCall /\ Offending(NewCall.args) # {}) =>
            /\ UNCHANGED <<inFlightRequests, promises, coinvoked>>
            /\ \A c \in 1..Len(cocalls) : cocalls'[c] = cocalls[c]]_vars

\* A call with (unsafe number, object) has failed for the number, and a call
\* with (1, function) for the function, while the invocation for 1 runs and
\* its entry is in the map.
C15_Witness ==
    /\ Len(cocalls) = 3
    /\ cocalls[1].args = <<Num(1)>>
    /\ cocalls[2].args = <<UnsafeNum, Obj>>
    /\ cocalls[2].outcome = Failure("Unable to generate key: Provided integer exceeds maximum safe integer size")
    /\ cocalls[3].args = <<Num(1), Fun>>
    /\ cocalls[3].outcome = Failure("Invalid parameter type: function.\nCreate a generateKey callback to use complex data types.")
    /\ Len(promises) = 1 /\ promises[1].st = "running"
    /\ DOMAIN inFlightRequests = {"{n1}|1"}
    /\ cocalls[1].outcome = Pending
\* ---- C16 ----
\* C16: with a generateKey no call fails for its arguments, the key of a
\* call is what generateKey returns, a call made while an earlier call's
\* invocation has not settled shares it exactly when generateKey returns
\* equal keys for the two, and every invocation has the arguments of the
\* first call that holds its promise.
C16_CustomKey ==
    generateKey = "custom" =>
        /\ \A c \in 1..Len(cocalls) :
              cocalls[c].promise # 0 /\ cocalls[c].key = customKey(cocalls[c].args)
        /\ \A c, d \in 1..Len(cocalls) :
              (c < d /\ cocalls[c].promise # 0 /\ cocalls[d].promise # 0
                 /\ promises[cocalls[c].promise].st # "settled")
                  => ((cocalls[c].promise = cocalls[d].promise)
                         <=> (customKey(cocalls[c].args) = customKey(cocalls[d].args)))
        /\ \A i \in 1..Len(coinvoked) :
              coinvoked[i].args = cocalls[Creator(coinvoked[i].promise)].args

\* The calls with 1 and with "1" share an invocation, which was made with
\* the number 1; the call with an object has an invocation of its own.
C16_Witness ==
    /\ generateKey = "custom"
    /\ Len(cocalls) = 3
    /\ cocalls[1].args = <<Num(1)>> /\ cocalls[2].args = <<Str("1")>> /\ cocalls[3].args = <<Obj>>
    /\ cocalls[1].promise = 1 /\ cocalls[2].promise = 1 /\ cocalls[3].promise = 2
    /\ Len(coinvoked) = 2
    /\ coinvoked[1].args = <<Num(1)>> /\ coinvoked[2].args = <<Obj>>
\* ---- C17 ----
\* the capacity is a number and at least 1
AtLeastOne(v) ==
    v.type = "number" /\ (v.kind = "Infinity" \/ (v.kind = "finite" /\ v.num >= 1))
\* the capacity is a number and less than 1
BelowOne(v) ==
    v.type = "number" /\ (v.kind = "-Infinity" \/ (v.kind = "finite" /\ v.num < 1))

\* C17: limit(fn, capacity) fails with 'parameter must be a function' when
\* fn is not callable, otherwise with 'limit must be a number' when the
\* capacity is not numeric, otherwise with 'limit must be >= 1' when it is
\* below 1; it fails for every capacity that is not a number >= 1 and
\* succeeds for a callable fn with a numeric capacity >= 1.
C17_ConstructionValidated ==
    ctorRes # "unset" =>
        /\ ctorFn.type # "function" => ctorRes = "parameter must be a function"
        /\ (ctorFn.type = "function" /\ ctorLimit.type # "number")
              => ctorRes = "limit must be a number"
        /\ (ctorFn.type = "function" /\ BelowOne(ctorLimit))
              => ctorRes = "limit must be >= 1"
        /\ ~AtLeastOne(ctorLimit) => ctorRes # "ok"
        /\ (ctorFn.type = "function" /\ AtLeastOne(ctorLimit)) => ctorRes = "ok"
\* ---- C18 ----
SomeFailure == \E r \in 1..Len(runs) : runs[r].res.kind = "error"
Resolved(c) == c <= Len(calls) /\ calls[c].outcome.kind = "value"
Drained ==
    /\ queue = <<>>
    /\ processing = 0
    /\ \A c \in 1..Len(calls) : RunsOf(c) # {} /\ Resolved(c)

\* C18: unless some invocation of fn fails, once calls have been made a state
\* is eventually reached where every call made has been admitted and
\* resolved with a value, the queue is empty and the counter is back at 0.
C18_Liveness == (Len(calls) > 0) ~> (SomeFailure \/ Drained)

\* Three calls were made to a limiter of capacity 2 before any settled (the
\* third was queued behind the first two); all three are resolved, the
\* queue is empty and the counter is 0.
C18_Witness ==
    /\ limit = 2
    /\ Len(calls) = 3
    /\ calls[1].path = "direct" /\ calls[2].path = "direct" /\ calls[3].path = "queued"
    /\ ~SomeFailure
    /\ Drained
\* ---- C19 ----
FreshCalls == {c \in KeyedCalls : ~cocalls[c].present}
\* the calls made to the coalescer while their key was in flight add no call
\* to the limiter: each limiter call is the invocation of one promise, made
\* by a call that found no entry, and slots and queue entries come from
\* limiter calls only
DuplicatesStopAtCoalescer ==
    /\ Len(calls) = Len(coinvoked)
    /\ Len(calls) <= Cardinality(FreshCalls)
    /\ \A i \in 1..Len(coinvoked) : Creator(coinvoked[i].promise) \in FreshCalls
    /\ Len(runs) + Len(queue) = Len(calls)
\* the limiter has at most one unsettled call per key
OneLimiterCallPerKey ==
    \A c, d \in 1..Len(calls) :
        (c # d /\ calls[c].args = calls[d].args)
            => (calls[c].outcome # Pending \/ calls[d].outcome # Pending)
\* at most `limit` invocations of fn are in flight
InvocationsWithinLimit == Cardinality(Unsettled) <= limit

\* C19: in coalesce(limit(fn, C)) the calls whose key is in flight in the
\* coalescer never reach the limiter, the limiter has at most one unsettled
\* call per key, and at most C invocations of fn are in flight at once.
C19_CoalesceOverLimit ==
    /\ DuplicatesStopAtCoalescer
    /\ OneLimiterCallPerKey
    /\ InvocationsWithinLimit
\* ---- C20 ----
\* every call to the limiter, duplicate or not, has a run (a slot) or an
\* entry in the queue, and the coalescer is called by runs only
EveryCallTakesSlotOrEntry ==
    /\ \A c \in 1..Len(calls) :
          RunsOf(c) # {} \/ (\E i \in 1..Len(queue) : queue[i].resolve = c)
    /\ \A c \in 1..Len(calls) : calls[c].path = "direct" => RunsOf(c) # {}
    /\ Len(cocalls) = Len(invoked)
    /\ Len(invoked) <= Len(runs)
\* the calls the limiter has passed to the coalescer and that have not settled
InCoalescer == {c \in 1..Len(cocalls) : cocalls[c].outcome = Pending}
AdmittedWithinLimit == Cardinality(InCoalescer) <= limit
\* at most one invocation per key is in flight
OneInvocationPerKey ==
    \A p, q \in 1..Len(promises) :
        (p # q /\ promises[p].key = promises[q].key)
            => (promises[p].st = "settled" \/ promises[q].st = "settled")
\* a call shares the invocation another call started only if it found the
\* entry of that invocation in the map
SharesOnlyInFlight ==
    \A c \in KeyedCalls :
        c # Creator(cocalls[c].promise) =>
            /\ cocalls[c].present
            /\ cocalls[c].key = cocalls[Creator(cocalls[c].promise)].key

\* C20: in limit(coalesce(fn), C) every call takes a limiter slot or queue
\* entry, at most C calls are in the coalescer at once, at most one
\* invocation of fn per key is in flight, and two calls share an invocation
\* only if the second reached the coalescer while the first one's
\* invocation was in flight.
C20_LimitOverCoalesce ==
    /\ EveryCallTakesSlotOrEntry
    /\ AdmittedWithinLimit
    /\ OneInvocationPerKey
    /\ SharesOnlyInFlight
\* ---- C21 ----
\* the runs that have incremented the counter and not yet decremented it
HoldingSlot == {r \in 1..Len(runs) : runs[r].st \in {"admitted", "running", "fnSettled"}}
\* the step in which fn is invoked for run r: it returns a pending result
\* (the run is then "running"), or a plain value or a synchronous throw (the
\* run is then "fnSettled")
InvokesFn(r) == runs[r].st = "admitted" /\ runs'[r].st \in {"running", "fnSettled"}
\* one increment at admission and one decrement at the .finally callback,
\* whichever way fn produced its outcome
UniformAccounting ==
    /\ [](processing = Cardinality(HoldingSlot))
    /\ [][\A r \in 1..Len(runs) : InvokesFn(r) => processing' = processing]_vars
\* every run that has finished has given its outcome to its caller
OutcomeReceived ==
    \A r \in 1..Len(runs) :
        runs[r].st = "done" => calls[runs[r].to].outcome = runs[r].res

\* C21: whether fn returns a plain value, returns a pending result or throws
\* synchronously, the counter is incremented once at admission and
\* decremented once at settlement, and the caller receives the value or the
\* failure as the call's outcome.
C21_SyncAsyncUniform == UniformAccounting /\ []OutcomeReceived
\* ---- C22 ----
\* the tuples of KeyTuples whose length is not that of keyArgs
OtherLength ==
    IF Len(keyArgs) = 1
    THEN {<<a, b>> : a, b \in KeyValues}
    ELSE {<<a>> : a \in KeyValues}

C23_InvocationOrder ==
    limit = 1 =>
        /\ \A i, j \in 1..Len(invoked) :
              i < j => runs[invoked[i].run].to < runs[invoked[j].run].to
        /\ \A r, q \in 1..Len(runs) : r < q => runs[r].to < runs[q].to
\* ---- C24 ----
\* a continuation that will call next() is waiting to run
AdmissionPending ==
    \E r \in 1..Len(runs) : runs[r].st = "decremented" /\ runs[r].res.kind = "value"
\* no call waits in the queue while a slot is free and no admission is pending
NoIdleWaiting == (Len(queue) > 0 /\ processing < limit) => AdmissionPending

\* C24: whenever the queue is not empty the counter equals the capacity, and
\* no call waits in the queue while a slot is free and no admission step is
\* pending.
C24_QueueImpliesFull ==
    /\ Len(queue) > 0 => processing = limit
    /\ NoIdleWaiting
\* ---- C25 ----
\* C25 (as claimed): the counter equals the number of calls admitted whose
\* invocation has not settled, is never negative, and is 0 when there is no
\* such call.
C25_CounterBookkeeping ==
    /\ processing = Cardinality(Unsettled)
    /\ processing >= 0
    /\ Unsettled = {} => processing = 0

\* the runs whose .finally callback runs in this step
NewlyDecremented ==
    {r \in 1..Len(runs) : runs[r].st # "decremented" /\ runs'[r].st = "decremented"}

\* C25 (amended): the counter equals the number of calls admitted whose
\* .finally callback has not run yet (the callback runs one job or more after
\* the invocation settles); it is never negative, it goes up by one exactly
\* when a run starts and down by one exactly when a run's .finally callback
\* runs, and it is 0 when no run is between the two.
C25_CounterUntilFinally ==
    /\ [](/\ processing = Cardinality(HoldingSlot)
          /\ processing >= 0
          /\ HoldingSlot = {} => processing = 0)
    /\ [][/\ Cardinality(NewlyDecremented) <= 1
          /\ Len(runs') - Len(runs) \in {0, 1}
          /\ processing' =
                processing + (Len(runs') - Len(runs)) - Cardinality(NewlyDecremented)]_vars

\* fn's result for the only admitted call has settled and the .finally
\* callback has not run: no invocation is unsettled, the counter is still 1
\* and a call made meanwhile waits in the queue.
C25_Witness ==
    /\ limit = 1
    /\ Len(runs) = 1 /\ runs[1].st = "fnSettled"
    /\ Unsettled = {}
    /\ processing = 1
    /\ Len(queue) = 1
\* ---- C26 ----
InQueue(c) == \E i \in 1..Len(queue) : queue[i].resolve = c

\* C26: every call leads to at most one invocation of fn, made with the
\* call's own arguments; a queue entry is removed exactly once, so a queued
\* call is either still in the queue or has been given a run, never both
\* and never twice.
C26_ExactlyOnce ==
    /\ \A c \in 1..Len(calls) : Cardinality(RunsOf(c)) <= 1
    /\ \A i, j \in 1..Len(invoked) : invoked[i].run = invoked[j].run => i = j
    /\ \A i \in 1..Len(invoked) :
          invoked[i].args = calls[runs[invoked[i].run].to].args
    /\ \A i, j \in 1..Len(queue) : queue[i].resolve = queue[j].resolve => i = j
    /\ \A c \in 1..Len(calls) :
          IF calls[c].path = "direct"
          THEN Cardinality(RunsOf(c)) = 1 /\ ~InQueue(c)
          ELSE InQueue(c) <=> RunsOf(c) = {}

\* The call with 'Two' waited behind the call with 'One', left the queue and
\* was invoked once, with 'Two'.
C26_Witness ==
    /\ Len(calls) = 2
    /\ calls[1].args = "One" /\ calls[1].path = "direct"
    /\ calls[2].args = "Two" /\ calls[2].path = "queued"
    /\ queue = <<>>
    /\ Len(invoked) = 2
    /\ invoked[2].args = "Two" /\ runs[invoked[2].run].to = 2
\* ---- C27 ----
\* the promises whose cleanup (the .finally callback) has not run
AwaitingCleanup == {p \in 1..Len(promises) : promises[p].st # "settled"}
MapEmpty == DOMAIN inFlightRequests = {}
\* the map holds exactly the promises made and not yet cleaned up, each
\* under its own key
EntriesAreLive ==
    /\ \A k \in DOMAIN inFlightRequests :
          inFlightRequests[k] \in AwaitingCleanup /\ promises[inFlightRequests[k]].key = k
    /\ \A p \in AwaitingCleanup :
          promises[p].key \in DOMAIN inFlightRequests
             /\ inFlightRequests[promises[p].key] = p

\* C27: an entry of inFlightRequests exists only for a key whose invocation
\* has been started by a call and whose cleanup has not run; the map is
\* empty once every cleanup has run; and a non-empty map is eventually
\* emptied, whether fn succeeds, fails or throws.
C27_LeakFreedom ==
    /\ []EntriesAreLive
    /\ [](AwaitingCleanup = {} => MapEmpty)
    /\ (~MapEmpty) ~> MapEmpty

\* Three invocations, for different keys, have ended, one of them with a
\* failure and one with a value, and the map is empty.
C27_Witness ==
    /\ Len(promises) = 3
    /\ AwaitingCleanup = {}
    /\ \E p, q \in 1..3 : promises[p].res.kind = "error" /\ promises[q].res.kind = "value"
    /\ Cardinality({promises[p].key : p \in 1..3}) = 3
    /\ MapEmpty
\* ---- C28 ----
\* every job has run and every invocation of fn has settled
Quiescent == ~ENABLED CoLimProgress

\* C28: in coalesce(limit(fn, C)), once every invocation of fn has settled
\* and no job is left to run, every call to the composed function has
\* settled and every entry of inFlightRequests has been removed.
C28_ComposedLiveness ==
    Quiescent =>
        /\ \A c \in 1..Len(cocalls) : cocalls[c].outcome # Pending
        /\ MapEmpty
\* ---- C29 ----
\* this step starts a run (it admits a call, from a caller or from the queue)
AdmitsCall == Len(runs') > Len(runs)
\* this step calls fn
CallsFn == Len(invoked') > Len(invoked)
\* this step handles the settlement of an invocation (the .finally callback
\* or the continuation of run)
HandlesSettlement ==
    \E r \in 1..Len(runs) :
        runs[r].st \in {"fnSettled", "decremented"} /\ runs'[r].st # runs[r].st

\* C29: fn is never called in the step that admits the call nor in one
\* that handles the settlement of an earlier invocation, but in a step of
\* its own, for a run admitted earlier; and a step admits at most one call.
C29_DeferredAdmission ==
    [][/\ Len(runs') - Len(runs) \in {0, 1}
       /\ Len(invoked') - Len(invoked) \in {0, 1}
       /\ AdmitsCall => (runs'[Len(runs')].st = "admitted" /\ ~CallsFn)
       /\ CallsFn =>
             /\ ~HandlesSettlement
             /\ invoked'[Len(invoked')].run \in 1..Len(runs)
             /\ runs[invoked'[Len(invoked')].run].st = "admitted"
             /\ queue' = queue /\ processing' = processing]_vars

\* Two queued calls were admitted one after the other by continuations, and
\* fn has been called for each of the three calls.
C29_Witness ==
    /\ limit = 1
    /\ Len(runs) = 3
    /\ runs[2].viaNext /\ runs[3].viaNext
    /\ Len(invoked) = 3
\* ---- C30 ----
\* C30: a call ends in a failure only with the failure of the invocation of
\* fn made for it, and a call whose invocation succeeded does not end in a
\* failure.
C30_NoSpontaneousFailure ==
    /\ \A c \in 1..Len(calls) :
          calls[c].outcome.kind = "error" =>
              \E r \in RunsOf(c) : runs[r].res = calls[c].outcome
    /\ \A r \in 1..Len(runs) :
          runs[r].res.kind = "value" => calls[runs[r].to].outcome.kind # "error"

\* The first call has ended with the failure of its invocation, and the
\* second call, made afterwards, with the value of its own.
C30_Witness ==
    /\ Len(calls) = 2 /\ Len(runs) = 2
    /\ runs[1].to = 1 /\ runs[1].res = Failure("Expected error")
    /\ calls[1].outcome = runs[1].res
    /\ runs[2].to = 2 /\ runs[2].res.kind = "value"
    /\ calls[2].outcome = runs[2].res
\* ---- C31 ----
\* the runs of concurrency() whose code after the await has not been reached
ActiveRuns == {r \in 1..Len(runs) : runs[r].st # "done"}

\* C31: for concurrency(fn, 1), once every call made has settled or been
\* rejected, a failed one included, the count is back at 0, and no call is
\* left waiting in the queue with nothing in flight.
C31_SlotFreedOnFailure ==
    (limit = 1 /\ ActiveRuns = {}) => (processing = 0 /\ queue = <<>>)
\* ---- C32 ----
Smaller(a, b) == IF a < b THEN a ELSE b

\* With no failed invocation so far: the count is the number of runs in
\* flight and is at most the limit, fn has been called for every run in the
\* step that started it, and of the calls not yet finished exactly
\* min(limit, their number) are in flight, the others wait in the queue.
BatchAccounting ==
    /\ processing = Cardinality(ActiveRuns)
    /\ processing <= limit
    /\ Len(invoked) = Len(runs)
    /\ Cardinality(ActiveRuns) = Smaller(limit, Cardinality(ActiveRuns) + Len(queue))
    /\ (ActiveRuns = {} => processing = 0 /\ queue = <<>>)

\* a call is made in this step
CallMade == Len(calls') = Len(calls) + 1

\* the code after the await of some run is executed in this step
RunFinishes == \E r \in 1..Len(runs) : runs[r].st # "done" /\ runs'[r].st = "done"

\* A call made below the limit invokes fn within the call; one made at the
\* limit invokes nothing and waits.
StartsSynchronously ==
    CallMade =>
        IF processing < limit
        THEN /\ Len(invoked') = Len(invoked) + 1
             /\ invoked'[Len(invoked')].args = calls'[Len(calls')].args
             /\ processing' = processing + 1
             /\ queue' = queue
        ELSE /\ invoked' = invoked
             /\ processing' = processing
             /\ Len(queue') = Len(queue) + 1

\* A run that finishes while calls are queued admits the head of the queue,
\* and only it.
AdmitsExactlyOne ==
    (RunFinishes /\ Len(queue) > 0) =>
        /\ queue' = Tail(queue)
        /\ Len(runs') = Len(runs) + 1
        /\ runs'[Len(runs')].args = Head(queue).args
        /\ runs'[Len(runs')].to = Head(queue).resolve
        /\ Len(invoked') = Len(invoked) + 1
        /\ processing' = processing

\* C32: for concurrency(fn, L) with an fn that has not failed, the count is
\* back at 0 once every call made has settled, a batch of N calls made then
\* invokes fn min(L, N) times within the calls, the count never exceeds L,
\* and each run that finishes while calls are queued admits exactly one
\* queued call.
C32_LimitAcrossBatches ==
    /\ [](~SomeFailure => BatchAccounting)
    /\ [][~SomeFailure' => (StartsSynchronously /\ AdmitsExactlyOne)]_vars

\* limit 1: a first call has settled, then a batch of two was made: the
\* first of them ran at once, the second waited and was admitted when the
\* first finished.
C32_Witness ==
    /\ ~SomeFailure
    /\ limit = 1
    /\ Len(calls) = 3
    /\ calls[1].path = "direct" /\ calls[2].path = "direct" /\ calls[3].path = "queued"
    /\ Len(runs) = 3
    /\ runs[1].st = "done" /\ runs[2].st = "done"
    /\ runs[3].viaNext /\ runs[3].to = 3 /\ runs[3].st # "done"
    /\ Len(invoked) = 3
    /\ processing = 1
====
